---- MODULE Spec2Model ----
(***************************************************************************)
(* pymelcloud heat pump adapter (src/pymelcloud/heat_pump.py).             *)
(*                                                                         *)
(* The module models                                                       *)
(*   - the four code/token translation pairs (_fan_speed_from/_to,         *)
(*     _operation_mode_from/_to, _horizontal_vane_from/_to,                *)
(*     _vertical_vane_from/_to),                                           *)
(*   - HeatPump.apply_write, the write accumulator over a caller-supplied  *)
(*     dict, and                                                           *)
(*   - the read accessors of HeatPump over self._state / self._device_conf.*)
(*                                                                         *)
(* Python values are tagged records, so that the dynamic typing the code   *)
(* relies on (None defaults, str/int comparison, exceptions) is part of    *)
(* the model.  The interpreter is CPython run without -O: assert           *)
(* statements are executed.                                                *)
(***************************************************************************)
EXTENDS Integers, Sequences, FiniteSets, TLC

VARIABLES
    state,          \* the dict handed to apply_write (the pending patch)
    patch0,         \* history: that dict as the caller created it
    before,         \* history: that dict as the last call found it
    written,        \* history: properties apply_write has written into it
    _state,         \* HeatPump._state: None or the last snapshot
    _device_conf,   \* HeatPump._device_conf
    call,           \* the last operation and its arguments
    result          \* what it returned, or the exception it raised

vars == <<state, patch0, before, written, _state, _device_conf, call, result>>

---------------------------------------------------------------------------
(* Bounds of the model.                                                    *)

\* fan speed codes 0..MaxFanSpeed, tokens speed-1..speed-MaxFanSpeed
MaxFanSpeed == 3
\* raw codes handed to the decoders range over -1..MaxCode
MaxCode == 13

---------------------------------------------------------------------------
(* Python values.                                                          *)

None == [t |-> "NoneType"]
PyInt(n) == [t |-> "int", v |-> n]
PyStr(s) == [t |-> "str", v |-> s]
PyBool(b) == [t |-> "bool", v |-> b]
PyList(xs) == [t |-> "list", v |-> xs]
\* a raised exception, as the outcome of a call
Raise(exc, msg) == [t |-> "raise", exc |-> exc, msg |-> msg]

IsRaise(r) == r.t = "raise"
IsNum(a) == a.t \in {"int", "bool"}
\* bool is a subclass of int: True is 1, False is 0
Num(a) == IF a.t = "bool" THEN (IF a.v THEN 1 ELSE 0) ELSE a.v

\* a == b
PyEq(a, b) == IF IsNum(a) /\ IsNum(b) THEN Num(a) = Num(b) ELSE a = b

Digits == <<"0", "1", "2", "3", "4", "5", "6", "7", "8", "9">>

RECURSIVE NatToStr(_)
NatToStr(n) == IF n < 10 THEN Digits[n + 1]
               ELSE NatToStr(n \div 10) \o Digits[(n % 10) + 1]

IntToStr(n) == IF n < 0 THEN "-" \o NatToStr(-n) ELSE NatToStr(n)

\* str(a), as an f-string formats a value
PyStrOf(a) == CASE a.t = "str" -> a.v
                [] a.t = "int" -> IntToStr(a.v)
                [] a.t = "bool" -> (IF a.v THEN "True" ELSE "False")
                [] a.t = "NoneType" -> "None"

IsDigit(c) == \E i \in 1..10 : Digits[i] = c
DigitVal(c) == (CHOOSE i \in 1..10 : Digits[i] = c) - 1

RECURSIVE DigitsToNat(_)
DigitsToNat(s) == IF Len(s) = 0 THEN 0
                  ELSE 10 * DigitsToNat(SubSeq(s, 1, Len(s) - 1))
                       + DigitVal(SubSeq(s, Len(s), Len(s)))

AllDigits(s) == Len(s) > 0 /\ \A i \in 1..Len(s) : IsDigit(SubSeq(s, i, i))

\* int(s) for a str s over letters, digits, '-' and '+': an optional sign
\* followed by one or more digits, anything else is a ValueError
PyIntOfStr(s) ==
    LET signed == Len(s) > 0 /\ SubSeq(s, 1, 1) \in {"-", "+"}
        body == IF signed THEN SubSeq(s, 2, Len(s)) ELSE s
    IN IF AllDigits(body)
       THEN PyInt(IF signed /\ SubSeq(s, 1, 1) = "-"
                  THEN 0 - DigitsToNat(body) ELSE DigitsToNat(body))
       ELSE Raise("ValueError",
                  "invalid literal for int() with base 10: '" \o s \o "'")

\* s[n:] for a str s
PySliceFrom(s, n) == IF n >= Len(s) THEN "" ELSE SubSeq(s, n + 1, Len(s))

\* dict.get(key, default) on a dict with str keys
DictGet(d, k, default) == IF k \in DOMAIN d THEN d[k] ELSE default
\* d[k] = v
DictSet(d, k, v) == [x \in (DOMAIN d) \cup {k} |-> IF x = k THEN v ELSE d[x]]
EmptyDict == [x \in {} |-> None]

\* a | b on non-negative ints
RECURSIVE BitOr(_, _)
BitOr(a, b) == IF a = 0 THEN b
               ELSE IF b = 0 THEN a
               ELSE (IF (a % 2) + (b % 2) > 0 THEN 1 ELSE 0)
                    + 2 * BitOr(a \div 2, b \div 2)

RECURSIVE BitAnd(_, _)
BitAnd(a, b) == IF a = 0 \/ b = 0 THEN 0
                ELSE (IF (a % 2) + (b % 2) = 2 THEN 1 ELSE 0)
                     + 2 * BitAnd(a \div 2, b \div 2)

---------------------------------------------------------------------------
(* Module constants, heat_pump.py lines 6-67.                              *)

PROPERTY_POWER == "power"
PROPERTY_TARGET_TEMPERATURE == "target_temperature"
PROPERTY_OPERATION_MODE == "operation_mode"
PROPERTY_FAN_SPEED == "fan_speed"
PROPERTY_VANE_HORIZONTAL == "vane_horizontal"
PROPERTY_VANE_VERTICAL == "vane_vertical"

FAN_SPEED_AUTO == "auto"
FAN_SPEED_SLUG == "speed-"

OPERATION_MODE_HEAT == "heat"
OPERATION_MODE_DRY == "dry"
OPERATION_MODE_COOL == "cool"
OPERATION_MODE_FAN_ONLY == "fan-only"
OPERATION_MODE_HEAT_COOL == "heat-cool"
OPERATION_MODE_UNDEFINED == "undefined"

\* a dict literal with int keys, as the sequence of its items in insertion order
_OPERATION_MODE_LOOKUP ==
    << <<1, OPERATION_MODE_HEAT>>,
       <<2, OPERATION_MODE_DRY>>,
       <<3, OPERATION_MODE_COOL>>,
       <<7, OPERATION_MODE_FAN_ONLY>>,
       <<8, OPERATION_MODE_HEAT_COOL>> >>

V_VANE_POSITION_AUTO == "auto"
V_VANE_POSITION_1 == "1-up"
V_VANE_POSITION_2 == "2"
V_VANE_POSITION_3 == "3"
V_VANE_POSITION_4 == "4"
V_VANE_POSITION_5 == "5-down"
V_VANE_POSITION_SWING == "swing"
V_VANE_POSITION_UNDEFINED == "undefined"

H_VANE_POSITION_AUTO == "auto"
H_VANE_POSITION_1 == "1-left"
H_VANE_POSITION_2 == "2"
H_VANE_POSITION_3 == "3"
H_VANE_POSITION_4 == "4"
H_VANE_POSITION_5 == "5-right"
H_VANE_POSITION_SPLIT == "split"
H_VANE_POSITION_SWING == "swing"
H_VANE_POSITION_UNDEFINED == "undefined"

_H_VANE_POSITION_LOOKUP ==
    << <<0, H_VANE_POSITION_AUTO>>,
       <<1, H_VANE_POSITION_1>>,
       <<2, H_VANE_POSITION_2>>,
       <<3, H_VANE_POSITION_3>>,
       <<4, H_VANE_POSITION_4>>,
       <<5, H_VANE_POSITION_5>>,
       <<8, H_VANE_POSITION_SPLIT>>,
       <<12, H_VANE_POSITION_SWING>> >>

_V_VANE_POSITION_LOOKUP ==
    << <<0, V_VANE_POSITION_AUTO>>,
       <<1, V_VANE_POSITION_1>>,
       <<2, V_VANE_POSITION_2>>,
       <<3, V_VANE_POSITION_3>>,
       <<4, V_VANE_POSITION_4>>,
       <<5, V_VANE_POSITION_5>>,
       <<7, V_VANE_POSITION_SWING>> >>

\* The bug "LOOKUP[key]": a subscript instead of .get, so a key that is not in
\* the table raises KeyError.
LookupGet_strict(table, key, default) ==
    IF \E i \in 1..Len(table) : PyEq(PyInt(table[i][1]), key)
    THEN PyStr(table[CHOOSE i \in 1..Len(table) : PyEq(PyInt(table[i][1]), key)][2])
    ELSE Raise("KeyError", PyStrOf(key))

\* LOOKUP.get(key, default) on an int-keyed table: the value of the item whose
\* key equals `key`
LookupGet(table, key, default) ==
    IF \E i \in 1..Len(table) : PyEq(PyInt(table[i][1]), key)
    THEN PyStr(table[CHOOSE i \in 1..Len(table) : PyEq(PyInt(table[i][1]), key)][2])
    ELSE default

\* The bug "no raise after the loop": the function falls off its end and
\* returns None.
LookupFind_noraise(table, token, otherwise) ==
    LET hits == {i \in 1..Len(table) : PyEq(PyStr(table[i][2]), token)}
    IN IF hits = {} THEN None
       ELSE PyInt(table[CHOOSE i \in hits : \A j \in hits : i <= j][1])

\* The bug "return the position": the index of the item found is returned
\* instead of its key.
LookupFind_index(table, token, otherwise) ==
    LET hits == {i \in 1..Len(table) : PyEq(PyStr(table[i][2]), token)}
    IN IF hits = {} THEN otherwise
       ELSE PyInt(CHOOSE i \in hits : \A j \in hits : i <= j)

\* for k, value in LOOKUP.items(): if value == token: return k
\* the first item, in insertion order, whose value equals `token`; `otherwise`
\* when the loop ends without returning
LookupFind(table, token, otherwise) ==
    LET hits == {i \in 1..Len(table) : PyEq(PyStr(table[i][2]), token)}
    IN IF hits = {} THEN otherwise
       ELSE PyInt(table[CHOOSE i \in hits : \A j \in hits : i <= j][1])

---------------------------------------------------------------------------
(* The translation functions, heat_pump.py lines 70-138.                   *)

_fan_speed_from(speed) ==
    IF PyEq(speed, PyInt(0)) THEN PyStr(FAN_SPEED_AUTO)
    ELSE PyStr(FAN_SPEED_SLUG \o PyStrOf(speed))

\* Python type names, for the TypeError texts
TypeName(a) == a.t

\* `assert speed >= 0` (line 78): None when it passes.  Ordering a str or
\* None against an int raises TypeError before the assertion is decided.
FanSpeedAssert(speed) ==
    IF IsNum(speed)
    THEN IF Num(speed) >= 0 THEN None ELSE Raise("AssertionError", "")
    ELSE Raise("TypeError",
               "'>=' not supported between instances of '"
                   \o TypeName(speed) \o "' and 'int'")

_fan_speed_to(speed) ==
    IF IsRaise(FanSpeedAssert(speed)) THEN FanSpeedAssert(speed)
    ELSE IF PyEq(speed, PyStr(FAN_SPEED_AUTO)) THEN PyInt(0)
    ELSE IF speed.t = "str"
         THEN PyIntOfStr(PySliceFrom(speed.v, Len(FAN_SPEED_SLUG)))
         ELSE Raise("TypeError",
                    "'" \o TypeName(speed) \o "' object is not subscriptable")

_operation_mode_from(mode) ==
    LookupGet(_OPERATION_MODE_LOOKUP, mode, PyStr(OPERATION_MODE_UNDEFINED))

_operation_mode_to(mode) ==
    LookupFind(_OPERATION_MODE_LOOKUP, mode,
               Raise("ValueError",
                     "Invalid operation_mode [" \o PyStrOf(mode) \o "]"))

_horizontal_vane_from(position) ==
    LookupGet(_H_VANE_POSITION_LOOKUP, position,
              PyStr(H_VANE_POSITION_UNDEFINED))

_horizontal_vane_to(position) ==
    LookupFind(_H_VANE_POSITION_LOOKUP, position,
               Raise("ValueError",
                     "Invalid horizontal vane position ["
                         \o PyStrOf(position) \o "]"))

_vertical_vane_from(position) ==
    LookupGet(_V_VANE_POSITION_LOOKUP, position,
              PyStr(V_VANE_POSITION_UNDEFINED))

_vertical_vane_to(position) ==
    LookupFind(_V_VANE_POSITION_LOOKUP, position,
               Raise("ValueError",
                     "Invalid vertical vane position ["
                         \o PyStrOf(position) \o "]"))

---------------------------------------------------------------------------
(* HeatPump.apply_write, heat_pump.py lines 144-172.                       *)

\* the key of the flags field, imported from pymelcloud.device (line 4)
EFFECTIVE_FLAGS == "EffectiveFlags"

\* flags | bit
FlagsOr(flags, bit) ==
    IF IsNum(flags) THEN PyInt(BitOr(Num(flags), bit))
    ELSE Raise("TypeError",
               "unsupported operand type(s) for |: '"
                   \o TypeName(flags) \o "' and 'int'")

\* The bug "flags = bit": the mask read at line 149 is dropped.
WriteBranch_overwrite(st, flags, field, rhs, bit) ==
    IF IsRaise(rhs) THEN [state |-> st, result |-> rhs]
    ELSE [state |-> DictSet(DictSet(st, field, rhs), EFFECTIVE_FLAGS, PyInt(bit)),
          result |-> None]

\* The bug "build a fresh dict": keys other than the one written are lost.
WriteBranch_fresh(st, flags, field, rhs, bit) ==
    IF IsRaise(rhs) THEN [state |-> st, result |-> rhs]
    ELSE [state |-> DictSet(DictSet(EmptyDict, field, rhs),
                            EFFECTIVE_FLAGS, FlagsOr(flags, bit)),
          result |-> None]

\* The bug "store the flags before encoding": a failed encoding leaves the
\* property's bit in the dict.
WriteBranch_flags_first(st, flags, field, rhs, bit) ==
    IF IsRaise(rhs)
    THEN [state |-> DictSet(st, EFFECTIVE_FLAGS, FlagsOr(flags, bit)),
          result |-> rhs]
    ELSE [state |-> DictSet(DictSet(st, field, rhs),
                            EFFECTIVE_FLAGS, FlagsOr(flags, bit)),
          result |-> None]

\* One branch of the if/elif chain followed by line 172:
\*     state[field] = rhs ; flags = flags | bit ; state[EFFECTIVE_FLAGS] = flags
\* `rhs` is the outcome of evaluating the right-hand side; when that raised,
\* nothing has been assigned.  When `flags | bit` raises, the field has.
WriteBranch(st, flags, field, rhs, bit) ==
    IF IsRaise(rhs) THEN [state |-> st, result |-> rhs]
    ELSE IF IsRaise(FlagsOr(flags, bit))
    THEN [state |-> DictSet(st, field, rhs), result |-> FlagsOr(flags, bit)]
    ELSE [state |-> DictSet(DictSet(st, field, rhs),
                            EFFECTIVE_FLAGS, FlagsOr(flags, bit)),
          result |-> None]

\* The bug "line 172 moved above the chain": the flags are stored before the
\* unknown name is rejected.
UnknownProperty_stored(st, flags, key) ==
    [state |-> DictSet(st, EFFECTIVE_FLAGS, flags),
     result |-> Raise("ValueError", "Cannot set " \o key \o ", invalid property")]

\* the else branch, lines 169-170
UnknownProperty(st, flags, key) ==
    [state |-> st,
     result |-> Raise("ValueError", "Cannot set " \o key \o ", invalid property")]

\* the dict after the call and the call's outcome (None: it returned)
apply_write(st, key, value) ==
    LET flags == DictGet(st, EFFECTIVE_FLAGS, PyInt(0))
    IN CASE key = PROPERTY_POWER ->
              WriteBranch(st, flags, "Power", value, 1)
         [] key = PROPERTY_TARGET_TEMPERATURE ->
              WriteBranch(st, flags, "SetTemperature", value, 4)
         [] key = PROPERTY_OPERATION_MODE ->
              WriteBranch(st, flags, "OperationMode", _operation_mode_to(value), 2)
         [] key = PROPERTY_FAN_SPEED ->
              WriteBranch(st, flags, "SetFanSpeed", _fan_speed_to(value), 8)
         [] key = PROPERTY_VANE_HORIZONTAL ->
              WriteBranch(st, flags, "VaneHorizontal", _horizontal_vane_to(value), 256)
         [] key = PROPERTY_VANE_VERTICAL ->
              WriteBranch(st, flags, "VaneVertical", _vertical_vane_to(value), 16)
         [] OTHER -> UnknownProperty(st, flags, key)

---------------------------------------------------------------------------
(* The write accumulator as a state machine: a caller creates a dict and   *)
(* calls apply_write on it any number of times.                            *)

\* flags values a dict may already hold when the caller hands it over: the
\* service reports EffectiveFlags as a non-negative integer
InitialFlags == {0, 1, 34}

InitialPatches ==
    {EmptyDict}
      \cup {DictSet(EmptyDict, EFFECTIVE_FLAGS, PyInt(f)) : f \in InitialFlags}
      \cup {DictSet(DictSet(EmptyDict, "RoomTemperature", PyInt(22)),
                    EFFECTIVE_FLAGS, PyInt(0))}

\* the (property, value) pairs callers pass
WriteInputs ==
    {<<PROPERTY_POWER, PyBool(b)>> : b \in BOOLEAN}
      \cup {<<PROPERTY_TARGET_TEMPERATURE, PyInt(t)>> : t \in {20, 21}}
      \cup {<<PROPERTY_OPERATION_MODE, v>> :
              v \in {PyStr("heat"), PyStr("heat-cool"), PyStr("undefined"),
                     PyInt(1)}}
      \cup {<<PROPERTY_FAN_SPEED, v>> :
              v \in {PyStr("auto"), PyStr("speed-1"), PyStr("fast"),
                     PyInt(-1)}}
      \cup {<<PROPERTY_VANE_HORIZONTAL, v>> :
              v \in {PyStr("split"), PyStr("swing"), PyStr("1-up")}}
      \cup {<<PROPERTY_VANE_VERTICAL, v>> :
              v \in {PyStr("swing"), PyStr("split"), None}}
      \cup {<<"Power", PyBool(TRUE)>>, <<"", None>>}

NoCall == [op |-> "init", args |-> <<>>]

\* the device side is not touched by apply_write
IdleDevice == _state = None /\ _device_conf = None

Init ==
    /\ state \in InitialPatches
    /\ patch0 = state
    /\ before = state
    /\ written = {}
    /\ IdleDevice
    /\ call = NoCall
    /\ result = None

\* the caller starts a new write batch
NewPatch(p) ==
    /\ state' = p
    /\ patch0' = p
    /\ before' = p
    /\ written' = {}
    /\ call' = [op |-> "new_patch", args |-> <<>>]
    /\ result' = None
    /\ UNCHANGED <<_state, _device_conf>>

ApplyWrite(key, value) ==
    LET out == apply_write(state, key, value)
    IN /\ state' = out.state
       /\ before' = state
       /\ result' = out.result
       /\ written' = IF IsRaise(out.result) THEN written ELSE written \cup {key}
       /\ call' = [op |-> "apply_write", args |-> <<key, value>>]
       /\ UNCHANGED <<patch0, _state, _device_conf>>

Next ==
    \/ \E p \in InitialPatches : NewPatch(p)
    \/ \E in \in WriteInputs : ApplyWrite(in[1], in[2])

Spec == Init /\ [][Next]_vars

---------------------------------------------------------------------------
(* The translation functions as a state machine: each step is one call of  *)
(* one function on one input.                                              *)

\* raw codes: the integers -1..MaxCode, and None for a field that is missing
CodeInputs == {PyInt(n) : n \in -1..MaxCode} \cup {None}

TableTokens(table) == {table[i][2] : i \in 1..Len(table)}

\* tokens: every token of every table, the fan speed tokens, the sentinel,
\* strings that are no token, and values that are no string
TokenInputs ==
    {PyStr(t) : t \in TableTokens(_OPERATION_MODE_LOOKUP)
                        \cup TableTokens(_H_VANE_POSITION_LOOKUP)
                        \cup TableTokens(_V_VANE_POSITION_LOOKUP)}
      \cup {PyStr(FAN_SPEED_SLUG \o IntToStr(n)) : n \in 1..MaxFanSpeed}
      \cup {PyStr(t) : t \in {"auto", "undefined", "", "Heat", "fast", "speed-",
                              "speed-x", "xxxxxx2"}}
      \cup {None, PyInt(1), PyInt(-1)}

IdlePatch ==
    /\ state = EmptyDict
    /\ patch0 = EmptyDict
    /\ before = EmptyDict
    /\ written = {}

InitCodec ==
    /\ IdlePatch
    /\ IdleDevice
    /\ call = NoCall
    /\ result = None

\* the patch and the device are not involved in a call of a module function
CodecFrame == UNCHANGED <<state, patch0, before, written, _state, _device_conf>>

FanSpeedFrom(c) ==
    /\ call' = [op |-> "_fan_speed_from", args |-> <<c>>]
    /\ result' = _fan_speed_from(c)
    /\ CodecFrame

FanSpeedTo(t) ==
    /\ call' = [op |-> "_fan_speed_to", args |-> <<t>>]
    /\ result' = _fan_speed_to(t)
    /\ CodecFrame

OperationModeFrom(c) ==
    /\ call' = [op |-> "_operation_mode_from", args |-> <<c>>]
    /\ result' = _operation_mode_from(c)
    /\ CodecFrame

OperationModeTo(t) ==
    /\ call' = [op |-> "_operation_mode_to", args |-> <<t>>]
    /\ result' = _operation_mode_to(t)
    /\ CodecFrame

HorizontalVaneFrom(c) ==
    /\ call' = [op |-> "_horizontal_vane_from", args |-> <<c>>]
    /\ result' = _horizontal_vane_from(c)
    /\ CodecFrame

HorizontalVaneTo(t) ==
    /\ call' = [op |-> "_horizontal_vane_to", args |-> <<t>>]
    /\ result' = _horizontal_vane_to(t)
    /\ CodecFrame

VerticalVaneFrom(c) ==
    /\ call' = [op |-> "_vertical_vane_from", args |-> <<c>>]
    /\ result' = _vertical_vane_from(c)
    /\ CodecFrame

VerticalVaneTo(t) ==
    /\ call' = [op |-> "_vertical_vane_to", args |-> <<t>>]
    /\ result' = _vertical_vane_to(t)
    /\ CodecFrame

NextCodec ==
    \/ \E c \in CodeInputs : FanSpeedFrom(c)
    \/ \E t \in TokenInputs : FanSpeedTo(t)
    \/ \E c \in CodeInputs : OperationModeFrom(c)
    \/ \E t \in TokenInputs : OperationModeTo(t)
    \/ \E c \in CodeInputs : HorizontalVaneFrom(c)
    \/ \E t \in TokenInputs : HorizontalVaneTo(t)
    \/ \E c \in CodeInputs : VerticalVaneFrom(c)
    \/ \E t \in TokenInputs : VerticalVaneTo(t)

SpecCodec == InitCodec /\ [][NextCodec]_vars

---------------------------------------------------------------------------
(* The read accessors of HeatPump, heat_pump.py lines 174-318, over        *)
(* self._state and self._device_conf.                                      *)

\* The bug "dry reads the heat bound": one row of the table names the wrong
\* configuration field.
_OPERATION_MODE_MIN_TEMP_LOOKUP_dry_heat ==
    << <<OPERATION_MODE_HEAT, "MinTempHeat">>,
       <<OPERATION_MODE_DRY, "MinTempHeat">>,
       <<OPERATION_MODE_COOL, "MinTempCoolDry">>,
       <<OPERATION_MODE_FAN_ONLY, "MinTempHeat">>,
       <<OPERATION_MODE_HEAT_COOL, "MinTempAutomatic">>,
       <<OPERATION_MODE_UNDEFINED, "MinTempHeat">> >>

_OPERATION_MODE_MIN_TEMP_LOOKUP ==
    << <<OPERATION_MODE_HEAT, "MinTempHeat">>,
       <<OPERATION_MODE_DRY, "MinTempCoolDry">>,
       <<OPERATION_MODE_COOL, "MinTempCoolDry">>,
       <<OPERATION_MODE_FAN_ONLY, "MinTempHeat">>,
       <<OPERATION_MODE_HEAT_COOL, "MinTempAutomatic">>,
       <<OPERATION_MODE_UNDEFINED, "MinTempHeat">> >>

_OPERATION_MODE_MAX_TEMP_LOOKUP ==
    << <<OPERATION_MODE_HEAT, "MaxTempHeat">>,
       <<OPERATION_MODE_DRY, "MaxTempCoolDry">>,
       <<OPERATION_MODE_COOL, "MaxTempCoolDry">>,
       <<OPERATION_MODE_FAN_ONLY, "MaxTempHeat">>,
       <<OPERATION_MODE_HEAT_COOL, "MaxTempAutomatic">>,
       <<OPERATION_MODE_UNDEFINED, "MaxTempHeat">> >>

\* LOOKUP.get(key) on a str-keyed table: None when no item has the key
StrLookupGet(table, key) ==
    IF \E i \in 1..Len(table) : PyEq(PyStr(table[i][1]), key)
    THEN PyStr(table[CHOOSE i \in 1..Len(table) : PyEq(PyStr(table[i][1]), key)][2])
    ELSE None

\* d.get(key, default) where the key is a Python value
DictGetPy(d, key, default) ==
    IF key.t = "str" THEN DictGet(d, key.v, default) ELSE default

\* the float literal 0.5
PyHalf == [t |-> "float", v |-> "0.5"]

\* None.get: self._device_conf is dereferenced without a None check
NoGet == Raise("AttributeError", "'NoneType' object has no attribute 'get'")

\* self._device_conf.get("Device", {})
ConfDevice == DictGet(_device_conf, "Device", EmptyDict)

\* bool(a)
Truthy(a) == CASE a.t = "bool" -> a.v
               [] a.t = "int" -> a.v # 0
               [] a.t = "str" -> a.v # ""
               [] a.t = "NoneType" -> FALSE

power == IF _state = None THEN None ELSE DictGet(_state, "Power", None)

temperature ==
    IF _state = None THEN None ELSE DictGet(_state, "RoomTemperature", None)

target_temperature ==
    IF _state = None THEN None ELSE DictGet(_state, "SetTemperature", None)

target_temperature_step ==
    IF _state = None THEN None
    ELSE IF _device_conf = None THEN NoGet
    ELSE DictGet(ConfDevice, "TemperatureIncrement", PyHalf)

\* The bug "None like the other accessors" when there is no snapshot.
operation_mode_none ==
    IF _state = None THEN None
    ELSE _operation_mode_from(DictGet(_state, "OperationMode", PyInt(-1)))

operation_mode ==
    IF _state = None THEN PyStr(OPERATION_MODE_UNDEFINED)
    ELSE _operation_mode_from(DictGet(_state, "OperationMode", PyInt(-1)))

target_temperature_min ==
    IF _state = None THEN None
    ELSE IF _device_conf = None THEN NoGet
    ELSE DictGetPy(ConfDevice,
                   StrLookupGet(_OPERATION_MODE_MIN_TEMP_LOOKUP, operation_mode),
                   PyInt(10))

target_temperature_max ==
    IF _state = None THEN None
    ELSE IF _device_conf = None THEN NoGet
    ELSE DictGetPy(ConfDevice,
                   StrLookupGet(_OPERATION_MODE_MAX_TEMP_LOOKUP, operation_mode),
                   PyInt(31))

fan_speed ==
    IF _state = None THEN None
    ELSE _fan_speed_from(DictGet(_state, "SetFanSpeed", None))

\* for num in range(1, n + 1): speeds.append(_fan_speed_from(num))
FanSpeedRange(n) == [num \in 1..n |-> _fan_speed_from(PyInt(num))]

fan_speeds ==
    IF _state = None THEN None
    ELSE IF _device_conf = None THEN NoGet
    ELSE PyList((IF Truthy(DictGet(ConfDevice, "HasAutomaticFanSpeed", PyBool(FALSE)))
                 THEN <<PyStr(FAN_SPEED_AUTO)>> ELSE <<>>)
                \o FanSpeedRange(DictGet(_state, "NumberOfFanSpeeds", PyInt(0)).v))

vane_horizontal ==
    IF _state = None THEN None
    ELSE _horizontal_vane_from(DictGet(_state, "VaneHorizontal", None))

vane_vertical ==
    IF _state = None THEN None
    ELSE _vertical_vane_from(DictGet(_state, "VaneVertical", None))

---------------------------------------------------------------------------
(* The read side as a state machine: the device is constructed with its    *)
(* configuration and no snapshot; the cloud client replaces the snapshot   *)
(* wholesale; the application reads the accessors.                         *)

\* a complete snapshot
BaseSnapshot ==
    [Power |-> PyBool(TRUE),
     RoomTemperature |-> PyInt(22),
     SetTemperature |-> PyInt(21),
     OperationMode |-> PyInt(1),
     SetFanSpeed |-> PyInt(0),
     VaneHorizontal |-> PyInt(0),
     VaneVertical |-> PyInt(0),
     NumberOfFanSpeeds |-> PyInt(MaxFanSpeed)]

DictDel(d, k) == [x \in (DOMAIN d) \ {k} |-> d[x]]

CodedFields == {"OperationMode", "SetFanSpeed", "VaneHorizontal", "VaneVertical"}

\* the snapshots the service may report: the complete one, with one coded
\* field set to any code, with any one field missing, with another number of
\* fan speeds, and the empty one
Snapshots ==
    {BaseSnapshot, EmptyDict}
      \cup {DictSet(BaseSnapshot, f, PyInt(c)) : f \in CodedFields, c \in -1..MaxCode}
      \cup {DictDel(BaseSnapshot, f) : f \in DOMAIN BaseSnapshot}
      \cup {DictSet(BaseSnapshot, "NumberOfFanSpeeds", PyInt(n)) : n \in 0..MaxFanSpeed}

AllBounds ==
    [MinTempHeat |-> PyInt(12), MaxTempHeat |-> PyInt(29),
     MinTempCoolDry |-> PyInt(16), MaxTempCoolDry |-> PyInt(30),
     MinTempAutomatic |-> PyInt(17), MaxTempAutomatic |-> PyInt(27),
     TemperatureIncrement |-> PyInt(1),
     HasAutomaticFanSpeed |-> PyBool(TRUE)]

\* the configurations a device may be constructed with
Confs ==
    {None,
     EmptyDict,
     [Device |-> EmptyDict],
     [Device |-> AllBounds],
     [Device |-> [MinTempHeat |-> PyInt(12), MaxTempHeat |-> PyInt(29),
                  HasAutomaticFanSpeed |-> PyBool(FALSE)]],
     [Device |-> [MinTempCoolDry |-> PyInt(16), MaxTempCoolDry |-> PyInt(30),
                  MinTempAutomatic |-> PyInt(17), MaxTempAutomatic |-> PyInt(27)]]}

InitRead ==
    /\ IdlePatch
    /\ _state = None
    /\ _device_conf \in Confs
    /\ call = NoCall
    /\ result = None

ReadFrame == UNCHANGED <<state, patch0, before, written, _state, _device_conf>>

\* the cloud client stores the service's next snapshot
Update(snapshot) ==
    /\ _state' = snapshot
    /\ call' = [op |-> "update", args |-> <<>>]
    /\ result' = None
    /\ UNCHANGED <<state, patch0, before, written, _device_conf>>

Power ==
    /\ call' = [op |-> "power", args |-> <<>>]
    /\ result' = power
    /\ ReadFrame

Temperature ==
    /\ call' = [op |-> "temperature", args |-> <<>>]
    /\ result' = temperature
    /\ ReadFrame

TargetTemperature ==
    /\ call' = [op |-> "target_temperature", args |-> <<>>]
    /\ result' = target_temperature
    /\ ReadFrame

TargetTemperatureStep ==
    /\ call' = [op |-> "target_temperature_step", args |-> <<>>]
    /\ result' = target_temperature_step
    /\ ReadFrame

TargetTemperatureMin ==
    /\ call' = [op |-> "target_temperature_min", args |-> <<>>]
    /\ result' = target_temperature_min
    /\ ReadFrame

TargetTemperatureMax ==
    /\ call' = [op |-> "target_temperature_max", args |-> <<>>]
    /\ result' = target_temperature_max
    /\ ReadFrame

OperationMode ==
    /\ call' = [op |-> "operation_mode", args |-> <<>>]
    /\ result' = operation_mode
    /\ ReadFrame

FanSpeed ==
    /\ call' = [op |-> "fan_speed", args |-> <<>>]
    /\ result' = fan_speed
    /\ ReadFrame

FanSpeeds ==
    /\ call' = [op |-> "fan_speeds", args |-> <<>>]
    /\ result' = fan_speeds
    /\ ReadFrame

VaneHorizontal ==
    /\ call' = [op |-> "vane_horizontal", args |-> <<>>]
    /\ result' = vane_horizontal
    /\ ReadFrame

VaneVertical ==
    /\ call' = [op |-> "vane_vertical", args |-> <<>>]
    /\ result' = vane_vertical
    /\ ReadFrame

NextRead ==
    \/ \E snapshot \in Snapshots : Update(snapshot)
    \/ Power
    \/ Temperature
    \/ TargetTemperature
    \/ TargetTemperatureStep
    \/ TargetTemperatureMin
    \/ TargetTemperatureMax
    \/ OperationMode
    \/ FanSpeed
    \/ FanSpeeds
    \/ VaneHorizontal
    \/ VaneVertical

SpecRead == InitRead /\ [][NextRead]_vars

---------------------------------------------------------------------------
(* Vocabulary of the properties: the tables as the specification states    *)
(* them, independent of the definitions above.                             *)

ClaimProperties ==
    {"power", "target_temperature", "operation_mode", "fan_speed",
     "vane_horizontal", "vane_vertical"}

ClaimBit(p) == CASE p = "power" -> 1
                 [] p = "operation_mode" -> 2
                 [] p = "target_temperature" -> 4
                 [] p = "fan_speed" -> 8
                 [] p = "vane_vertical" -> 16
                 [] p = "vane_horizontal" -> 256

ClaimField(p) == CASE p = "power" -> "Power"
                   [] p = "target_temperature" -> "SetTemperature"
                   [] p = "operation_mode" -> "OperationMode"
                   [] p = "fan_speed" -> "SetFanSpeed"
                   [] p = "vane_horizontal" -> "VaneHorizontal"
                   [] p = "vane_vertical" -> "VaneVertical"

ClaimModeTable ==
    {<<1, "heat">>, <<2, "dry">>, <<3, "cool">>, <<7, "fan-only">>,
     <<8, "heat-cool">>}

ClaimHVaneTable ==
    {<<0, "auto">>, <<1, "1-left">>, <<2, "2">>, <<3, "3">>, <<4, "4">>,
     <<5, "5-right">>, <<8, "split">>, <<12, "swing">>}

ClaimVVaneTable ==
    {<<0, "auto">>, <<1, "1-up">>, <<2, "2">>, <<3, "3">>, <<4, "4">>,
     <<5, "5-down">>, <<7, "swing">>}

ClaimFanTable ==
    {<<0, "auto">>} \cup {<<n, "speed-" \o IntToStr(n)>> : n \in 1..MaxFanSpeed}

ClaimTable(p) == CASE p = "operation_mode" -> ClaimModeTable
                   [] p = "fan_speed" -> ClaimFanTable
                   [] p = "vane_horizontal" -> ClaimHVaneTable
                   [] p = "vane_vertical" -> ClaimVVaneTable

ClaimTokens(table) == {e[2] : e \in table}
ClaimCodes(table) == {e[1] : e \in table}
ClaimCodeOf(table, token) == (CHOOSE e \in table : e[2] = token)[1]
ClaimTokenOf(table, code) == (CHOOSE e \in table : e[1] = code)[2]

\* the raw value the specification expects in the field after writing `value`
ClaimEncode(p, value) ==
    IF p \in {"power", "target_temperature"} THEN value
    ELSE PyInt(ClaimCodeOf(ClaimTable(p), value.v))

FlagsOf(d) == Num(DictGet(d, EFFECTIVE_FLAGS, PyInt(0)))
HasBit(n, bit) == BitAnd(n, bit) = bit

RECURSIVE OrBits(_)
OrBits(ps) == IF ps = {} THEN 0
              ELSE LET p == CHOOSE x \in ps : TRUE
                   IN BitOr(ClaimBit(p), OrBits(ps \ {p}))

LastWrite == call.op = "apply_write"
Returned == LastWrite /\ result = None
Failed == LastWrite /\ IsRaise(result)
Key == call.args[1]
Value == call.args[2]

---------------------------------------------------------------------------
(* Properties of the write accumulator, checked under Spec.                *)

\* C1: after any successful apply_write calls on one dict, its flags field is
\* the bitwise OR of the flags the dict held when the caller created it (0 if
\* absent) and the bit of every property written; no call clears a bit that
\* was set; from an empty dict, power then target_temperature gives 0x05.
C1_FlagsAccumulate ==
    /\ FlagsOf(state) = BitOr(FlagsOf(patch0), OrBits(written))
    /\ written # {} => EFFECTIVE_FLAGS \in DOMAIN state
    /\ LastWrite => BitAnd(FlagsOf(before), FlagsOf(state)) = FlagsOf(before)
    /\ (patch0 = EmptyDict /\ written = {"power", "target_temperature"})
          => state[EFFECTIVE_FLAGS] = PyInt(5)

\* a dict that came with flags 0x22 has had power, operation_mode and
\* vane_horizontal written: 0x22 | 0x01 | 0x02 | 0x100 = 0x123
C1_Witness ==
    /\ FlagsOf(patch0) = 34
    /\ written = {"power", "operation_mode", "vane_horizontal"}
    /\ Returned
    /\ FlagsOf(state) = 291

\* the exception classes the encoders raise for a value that has no code: the
\* specification's InvalidValue
InvalidValueClasses ==
    {_operation_mode_to(PyStr(OPERATION_MODE_UNDEFINED)).exc,
     _horizontal_vane_to(PyStr(H_VANE_POSITION_UNDEFINED)).exc,
     _vertical_vane_to(PyStr(V_VANE_POSITION_UNDEFINED)).exc}

UnknownCall == LastWrite /\ Key \notin ClaimProperties

\* C2 as stated: apply_write with a property name outside the six fails with
\* an error of a kind distinct from the one raised for an invalid value, and
\* leaves the dict as the call found it.
C2_DistinctErrorKind ==
    UnknownCall => /\ IsRaise(result)
                   /\ result.exc \notin InvalidValueClasses
                   /\ state = before

\* C2, amended: apply_write with a property name outside the six raises
\* ValueError("Cannot set <name>, invalid property"), the same exception class
\* the encoders raise for an invalid value, and leaves the dict as the call
\* found it: no key added, none changed, the flags field included.
C2_UnknownPropertyRejected ==
    UnknownCall => /\ IsRaise(result)
                   /\ result.exc = "ValueError"
                   /\ result.exc \in InvalidValueClasses
                   /\ result.msg = "Cannot set " \o Key \o ", invalid property"
                   /\ state = before
                   /\ DOMAIN state = DOMAIN before

\* an unknown name is rejected after two properties were written
C2_Witness ==
    /\ UnknownCall
    /\ Key = "Power"
    /\ IsRaise(result)
    /\ written = {"power", "target_temperature"}
    /\ state = before
    /\ {"Power", "SetTemperature", EFFECTIVE_FLAGS} \subseteq DOMAIN state

\* C3: starting from an empty dict, the keys after N successful calls are
\* exactly the raw fields of the properties written plus the flags field; a
\* call changes only its own raw field and the flags field; the raw field holds
\* the encoding of the value last written.
C3_ExactKeys ==
    /\ patch0 = EmptyDict =>
          DOMAIN state = {ClaimField(p) : p \in written}
                           \cup (IF written = {} THEN {} ELSE {EFFECTIVE_FLAGS})
    /\ Returned =>
          /\ \A k \in (DOMAIN before \cup DOMAIN state)
                        \ {ClaimField(Key), EFFECTIVE_FLAGS} :
                k \in DOMAIN before /\ k \in DOMAIN state /\ state[k] = before[k]
          /\ ClaimField(Key) \in DOMAIN state
          /\ state[ClaimField(Key)] = ClaimEncode(Key, Value)

\* operation_mode is written a second time, over the code of an earlier write,
\* in a dict that also holds Power and VaneVertical
C3_Witness ==
    /\ patch0 = EmptyDict
    /\ written = {"power", "operation_mode", "vane_vertical"}
    /\ Returned
    /\ Key = "operation_mode"
    /\ Value = PyStr("heat-cool")
    /\ "OperationMode" \in DOMAIN before
    /\ before["OperationMode"] = PyInt(1)
    /\ state["OperationMode"] = PyInt(8)
    /\ state["VaneVertical"] = PyInt(7)

\* C10: a call that fails leaves the dict exactly as it found it, in particular
\* when the value of operation_mode, fan_speed, vane_horizontal or
\* vane_vertical cannot be encoded; so a property bit that apply_write
\* contributed is set only if that property's raw field is present.
C10_FailureIsAtomic ==
    /\ Failed => state = before
    /\ \A p \in ClaimProperties :
          (HasBit(FlagsOf(state), ClaimBit(p)) /\ ~HasBit(FlagsOf(patch0), ClaimBit(p)))
             => ClaimField(p) \in DOMAIN state

\* vane_vertical is refused a horizontal-only token after another write
C10_Witness ==
    /\ Failed
    /\ Key = "vane_vertical"
    /\ Value = PyStr("split")
    /\ written = {"power"}
    /\ "VaneVertical" \notin DOMAIN state
    /\ ~HasBit(FlagsOf(state), 16)
    /\ state = before

---------------------------------------------------------------------------
(* Properties of the translation functions, checked under SpecCodec.       *)

Op == call.op
Arg == call.args[1]

\* C4 as stated: encoding the fan speed token 'auto' gives 0 and 'speed-n'
\* gives n, decoding the code gives the token back, and a malformed token
\* fails with the error raised for an invalid value.
C4_FanSpeedEncodes ==
    Op = "_fan_speed_to" =>
       /\ Arg = PyStr("auto") =>
             (result = PyInt(0) /\ _fan_speed_from(result) = Arg)
       /\ \A n \in 1..MaxFanSpeed :
             Arg = PyStr("speed-" \o IntToStr(n)) =>
                (result = PyInt(n) /\ _fan_speed_from(result) = Arg)
       /\ Arg \in {PyStr("fast"), PyStr("speed-"), PyStr("speed-x"), PyStr("")} =>
             (IsRaise(result) /\ result.exc \in InvalidValueClasses)

EncoderTable(op) ==
    CASE op = "_operation_mode_to" -> ClaimModeTable
      [] op = "_horizontal_vane_to" -> ClaimHVaneTable
      [] op = "_vertical_vane_to" -> ClaimVVaneTable

DecoderTable(op) ==
    CASE op = "_operation_mode_from" -> ClaimModeTable
      [] op = "_horizontal_vane_from" -> ClaimHVaneTable
      [] op = "_vertical_vane_from" -> ClaimVVaneTable

EncoderOps == {"_operation_mode_to", "_horizontal_vane_to", "_vertical_vane_to"}
DecoderOps == {"_operation_mode_from", "_horizontal_vane_from", "_vertical_vane_from"}

Decode(op, code) ==
    CASE op = "_operation_mode_to" -> _operation_mode_from(code)
      [] op = "_horizontal_vane_to" -> _horizontal_vane_from(code)
      [] op = "_vertical_vane_to" -> _vertical_vane_from(code)

Encode(op, token) ==
    CASE op = "_operation_mode_from" -> _operation_mode_to(token)
      [] op = "_horizontal_vane_from" -> _horizontal_vane_to(token)
      [] op = "_vertical_vane_from" -> _vertical_vane_to(token)

\* C5: for operation mode, horizontal vane and vertical vane, encoding a string
\* that is not a token of the domain's table, the sentinel 'undefined'
\* included, raises ValueError (InvalidValue) and returns no code.
C5_UnknownTokenRaises ==
    (Op \in EncoderOps /\ Arg.t = "str"
       /\ Arg.v \notin ClaimTokens(EncoderTable(Op)))
    => (IsRaise(result) /\ result.exc = "ValueError")

\* the sentinel that decoding produces is refused by the encoder
C5_Witness ==
    /\ Op = "_operation_mode_to"
    /\ Arg = PyStr("undefined")
    /\ Arg = _operation_mode_from(PyInt(0))
    /\ IsRaise(result)
    /\ result.msg = "Invalid operation_mode [undefined]"

\* C6: for the operation mode, horizontal vane and vertical vane tables, as
\* the specification lists them, decoding a code of the table gives its token
\* and encoding that token gives the code back; encoding a token of the table
\* gives its code and decoding that code gives the token back.
C6_RoundTrip ==
    /\ (Op \in DecoderOps /\ Arg.t = "int"
          /\ Arg.v \in ClaimCodes(DecoderTable(Op)))
       => /\ result = PyStr(ClaimTokenOf(DecoderTable(Op), Arg.v))
          /\ Encode(Op, result) = Arg
    /\ (Op \in EncoderOps /\ Arg.t = "str"
          /\ Arg.v \in ClaimTokens(EncoderTable(Op)))
       => /\ result = PyInt(ClaimCodeOf(EncoderTable(Op), Arg.v))
          /\ Decode(Op, result) = Arg

\* 'swing' is code 12 on the horizontal axis (and 7 on the vertical one)
C6_Witness ==
    /\ Op = "_horizontal_vane_to"
    /\ Arg = PyStr("swing")
    /\ result = PyInt(12)
    /\ _horizontal_vane_from(result) = Arg
    /\ _vertical_vane_to(Arg) = PyInt(7)

---------------------------------------------------------------------------
(* Properties of the read accessors, checked under SpecRead.               *)

HasSnapshot == _state # None

\* the token the specification expects for the raw code in `field`
ExpectDecode(table, field) ==
    IF field \in DOMAIN _state /\ _state[field].t = "int"
         /\ _state[field].v \in ClaimCodes(table)
    THEN PyStr(ClaimTokenOf(table, _state[field].v))
    ELSE PyStr("undefined")

\* C7: decoding never fails.  With a snapshot present, operation_mode,
\* vane_horizontal and vane_vertical give the table's token for a code of the
\* table and 'undefined' for any other code and for a missing field;
\* fan_speed gives 'auto' for code 0 and 'speed-n' for a code n >= 1, and a
\* str, not an exception, when the field is missing.
C7_DecodingNeverFails ==
    HasSnapshot =>
       /\ Op = "operation_mode" =>
             result = ExpectDecode(ClaimModeTable, "OperationMode")
       /\ Op = "vane_horizontal" =>
             result = ExpectDecode(ClaimHVaneTable, "VaneHorizontal")
       /\ Op = "vane_vertical" =>
             result = ExpectDecode(ClaimVVaneTable, "VaneVertical")
       /\ Op = "fan_speed" =>
             /\ ~IsRaise(result)
             /\ result.t = "str"
             /\ "SetFanSpeed" \in DOMAIN _state =>
                   LET n == _state["SetFanSpeed"].v
                   IN /\ n = 0 => result = PyStr("auto")
                      /\ n >= 1 => result = PyStr("speed-" \o IntToStr(n))

\* the snapshot has no SetFanSpeed: fan_speed formats the None it read
C7_Witness ==
    /\ HasSnapshot
    /\ "SetFanSpeed" \notin DOMAIN _state
    /\ "OperationMode" \in DOMAIN _state
    /\ Op = "fan_speed"
    /\ result = PyStr("speed-None")

ReadOps ==
    {"power", "temperature", "target_temperature", "target_temperature_step",
     "target_temperature_min", "target_temperature_max", "fan_speed",
     "fan_speeds", "vane_horizontal", "vane_vertical", "operation_mode"}

\* C8: with no snapshot, every read accessor returns without raising: None for
\* power, temperature, target_temperature, its step, minimum and maximum,
\* fan_speed, fan_speeds(), vane_horizontal and vane_vertical, and the token
\* 'undefined' for operation_mode.
C8_NoSnapshotUnknown ==
    (~HasSnapshot /\ Op \in ReadOps) =>
       result = IF Op = "operation_mode" THEN PyStr("undefined") ELSE None

\* fan_speeds() of a device whose configuration has the automatic speed, read
\* before any snapshot, and operation_mode of the same device
C8_Witness ==
    /\ ~HasSnapshot
    /\ _device_conf = [Device |-> AllBounds]
    /\ Op = "fan_speeds"
    /\ result = None
    /\ operation_mode = PyStr("undefined")

ClaimMinField(m) ==
    CASE m = "heat" -> "MinTempHeat"
      [] m \in {"dry", "cool"} -> "MinTempCoolDry"
      [] m = "heat-cool" -> "MinTempAutomatic"
      [] m \in {"fan-only", "undefined"} -> "MinTempHeat"

ClaimMaxField(m) ==
    CASE m = "heat" -> "MaxTempHeat"
      [] m \in {"dry", "cool"} -> "MaxTempCoolDry"
      [] m = "heat-cool" -> "MaxTempAutomatic"
      [] m \in {"fan-only", "undefined"} -> "MaxTempHeat"

ClaimMode == ExpectDecode(ClaimModeTable, "OperationMode").v

\* C9: with a snapshot (and a configuration) present, target_temperature_min
\* and target_temperature_max return the configuration field selected by the
\* decoded operation mode (heat: the Heat bounds, dry and cool: the CoolDry
\* bounds, heat-cool: the Automatic bounds, fan-only and undefined: the Heat
\* bounds), and 10 and 31 when that field is absent.
C9_BoundsByMode ==
    (HasSnapshot /\ _device_conf # None) =>
       /\ Op = "target_temperature_min" =>
             result = DictGet(DictGet(_device_conf, "Device", EmptyDict),
                              ClaimMinField(ClaimMode), PyInt(10))
       /\ Op = "target_temperature_max" =>
             result = DictGet(DictGet(_device_conf, "Device", EmptyDict),
                              ClaimMaxField(ClaimMode), PyInt(31))

\* dry mode reads MinTempCoolDry (16), not MinTempHeat (12) nor the default
C9_Witness ==
    /\ HasSnapshot
    /\ _device_conf = [Device |-> AllBounds]
    /\ "OperationMode" \in DOMAIN _state
    /\ _state["OperationMode"] = PyInt(2)
    /\ Op = "target_temperature_min"
    /\ result = PyInt(16)

====
